---------------------------- MODULE Spec2Model ----------------------------
(***************************************************************************)
(* Model of the request-orchestration layer of entsoe-py:                  *)
(*   misc.py            year_blocks, day_blocks, pairwise, retry,          *)
(*                      paginated, year_limited, day_limited               *)
(*   entsoerawclient.py EntsoeRawClient.__init__, base_request,            *)
(*                      _datetime_to_str                                   *)
(*   entsoepandasclient.py  the decorated query methods                    *)
(*                                                                         *)
(* An instant is an integer number of ticks (half seconds) since           *)
(* BaseYear-01-01 00:00:00, on the proleptic Gregorian calendar.  The sub- *)
(* second tick is kept because dateutil's rrule drops the sub-second part  *)
(* of dtstart, and the wire format drops everything below the hour.        *)
(***************************************************************************)
EXTENDS Integers, Sequences, FiniteSets, TLC

VARIABLES
    gran,         \* "YEAR" (year_limited) or "DAY" (day_limited)
    pag,          \* TRUE iff the query method is also decorated @paginated
    start,        \* kwargs['start'] of the query
    end,          \* kwargs['end'] of the query
    blocks,       \* year_wrapper / day_wrapper: the list of (_start, _end)
    pc,           \* position of the call
    tz,           \* tzinfo of the instants handed to the client
    retry_count,  \* self.retry_count
    retry_delay,  \* self.retry_delay
    server,       \* how the remote end answers (the environment)
    reqStart,     \* base_request: start
    reqEnd,       \* base_request: end
    params,       \* base_request: the params dict of the caller
    attempts,     \* retry_wrapper: iterations of the for loop begun in this call
    sleeps,       \* retry_wrapper: calls of sleep(self.retry_delay) in this call
    failures,     \* retry_wrapper: exceptions caught in this call
    error,        \* retry_wrapper: error
    status,       \* response.status_code of the last response
    body,         \* response.text of the last response, as parsed elements
    outcome,      \* what the last base_request call returned or raised
    thrown,       \* what session.get raised in this call, in order
    log,          \* session.get and sleep calls so far, in order
    bi,           \* year_wrapper: index of the block being fetched
    todo,         \* pagination_wrapper calls begun or pending, innermost first
    kept,         \* the sub-ranges whose frames are concatenated, in order
    raised,       \* the exception that left the query, "None" if none
    run,          \* 1 in the first call of the query method, 2 in a repeated call
    prev,         \* what the first call requested and gave, once it is repeated
    callAt        \* the length of the log when each call of base_request began

chunkVars == <<gran, pag, start, end, blocks>>
clientVars == <<tz, retry_count, retry_delay, server>>
queryVars == <<bi, todo, kept, raised>>
reqVars == <<reqStart, reqEnd, params, attempts, sleeps, failures, error, status, body, outcome,
             thrown, log>>
runVars == <<run, prev, callAt>>
vars == <<gran, pag, start, end, blocks, pc, tz, retry_count, retry_delay, server,
          reqStart, reqEnd, params, attempts, sleeps, failures, error, status, body,
          outcome, thrown, log, bi, todo, kept, raised, run, prev, callAt>>

-----------------------------------------------------------------------------
(* Calendar *)

BaseYear == 2019
TicksPerSecond == 2
TicksPerHour == 3600 * TicksPerSecond
TicksPerDay == 24 * TicksPerHour

\* bounds of the sampled inputs
MaxYearSpan == 5
MaxDaySpan == 3

IsLeap(y) == (y % 4 = 0) /\ ((y % 100 # 0) \/ (y % 400 = 0))

DaysInYear(y) == IF IsLeap(y) THEN 366 ELSE 365

RECURSIVE DaysBefore(_)
DaysBefore(y) == IF y <= BaseYear THEN 0 ELSE DaysBefore(y - 1) + DaysInYear(y - 1)

YearStart(y) == DaysBefore(y) * TicksPerDay

RECURSIVE YearFrom(_, _)
YearFrom(t, y) == IF t < YearStart(y + 1) THEN y ELSE YearFrom(t, y + 1)

YearOf(t) == YearFrom(t, BaseYear)

TimeOfDay(t) == t % TicksPerDay

DayOfYear(t) == (t - YearStart(YearOf(t))) \div TicksPerDay

\* month-and-day as a position in a leap year: 0 = 1 January, 59 = 29 February,
\* 60 = 1 March, 152 = 1 June
Feb29 == 31 + 28

MonthDay(t) ==
    LET d == DayOfYear(t)
    IN  IF IsLeap(YearOf(t)) \/ d < Feb29 THEN d ELSE d + 1

DateExists(y, md) == md # Feb29 \/ IsLeap(y)

Instant(y, md, tod) ==
    LET d == IF IsLeap(y) \/ md < Feb29 THEN md ELSE md - 1
    IN  YearStart(y) + d * TicksPerDay + tod

\* 06:30:00, a time of day on no hour boundary
T0630 == (6 * 60 + 30) * 60 * TicksPerSecond

\* datetime.replace(microsecond=0)
TruncSecond(t) == t - (t % TicksPerSecond)

-----------------------------------------------------------------------------
(* misc.py: year_blocks, day_blocks, pairwise *)

\* a recurrence on the calendar-year starts inside [dtstart, until] instead of on
\* the anniversaries of dtstart
RRuleYearlyOnJan1(dtstart, until) ==
    { Instant(y, 0, 0) :
        y \in { yy \in YearOf(dtstart)..YearOf(until) :
                  dtstart <= Instant(yy, 0, 0) /\ Instant(yy, 0, 0) <= until } }

\* rrule.rrule(YEARLY, dtstart, until): dtstart without its sub-second part,
\* repeated on the same month, day and time of every year in which that date
\* exists, up to and including until
RRuleYearly(dtstart, until) ==
    LET d0 == TruncSecond(dtstart)
    IN  { Instant(y, MonthDay(d0), TimeOfDay(d0)) :
            y \in { yy \in YearOf(d0)..YearOf(until) :
                      /\ DateExists(yy, MonthDay(d0))
                      /\ Instant(yy, MonthDay(d0), TimeOfDay(d0)) <= until } }

\* rrule.rrule(DAILY, dtstart, until)
RRuleDaily(dtstart, until) ==
    LET d0 == TruncSecond(dtstart)
    IN  { d0 + k * TicksPerDay :
            k \in { kk \in 0..((until - d0) \div TicksPerDay) : d0 + kk * TicksPerDay <= until } }

Min(S) == CHOOSE x \in S : \A y \in S : x <= y

\* sorted(set(res))
RECURSIVE Sorted(_)
Sorted(S) == IF S = {} THEN <<>> ELSE <<Min(S)>> \o Sorted(S \ {Min(S)})

\* zip(a, b) of the iterable and the iterable advanced by one
pairwise(res) == [i \in 1..(IF Len(res) = 0 THEN 0 ELSE Len(res) - 1) |-> <<res[i], res[i + 1]>>]

year_blocks(s, e) == pairwise(Sorted(RRuleYearly(s, e) \cup {e}))

day_blocks(s, e) == pairwise(Sorted(RRuleDaily(s, e) \cup {e}))

Blocks(g, s, e) == IF g = "YEAR" THEN year_blocks(s, e) ELSE day_blocks(s, e)

-----------------------------------------------------------------------------
(* entsoerawclient.py: _datetime_to_str *)

\* hours east of UTC; a naive instant is formatted as it stands
UtcOffset(zone) == IF zone = "CET" THEN TicksPerHour ELSE 0

\* the conversion left out
ToUtcLeftOut(zone, t) == t

\* dtm.tz_convert("UTC") when dtm has a tzinfo other than UTC
ToUtc(zone, t) == IF zone # "naive" /\ zone # "UTC" THEN t - UtcOffset(zone) ELSE t

\* strftime('%Y%m%d%H00'): year, month-and-day, hour; minutes are written 00
StrfHour(t) == <<YearOf(t), MonthDay(t), TimeOfDay(t) \div TicksPerHour>>

DatetimeToStr(zone, t) == StrfHour(ToUtc(zone, t))

-----------------------------------------------------------------------------
(* entsoerawclient.py: base_request, the classification of a response *)

SP == " "

Spaces(n) == [i \in 1..n |-> SP]

\* the marker in lower case
NoDataMarkerLower == <<"no", SP, "matching", SP, "data", SP, "found">>

\* 'No matching data found'
NoDataMarker == <<"No", SP, "matching", SP, "data", SP, "found">>

\* the literal of lines 85-86: the backslash joins the two source lines inside
\* the string, so the blank before the backslash and the 22 blanks indenting
\* the next line are part of the marker
LimitMarker ==
    <<"amount", SP, "of", SP, "requested", SP, "data">> \o Spaces(1 + 22) \o
    <<"exceeds", SP, "allowed", SP, "limit">>

\* needle in haystack
Contains(text, needle) ==
    \E i \in 0..(Len(text) - Len(needle)) : SubSeq(text, i + 1, i + Len(needle)) = needle

\* str.split(' '): cut at every single blank
RECURSIVE Split(_)
Split(text) ==
    IF \A i \in 1..Len(text) : text[i] # SP
    THEN <<text>>
    ELSE LET i == CHOOSE j \in 1..Len(text) :
                    text[j] = SP /\ \A k \in 1..(j - 1) : text[k] # SP
         IN  <<SubSeq(text, 1, i - 1)>> \o Split(SubSeq(text, i + 1, Len(text)))

\* soup.find_all('text')
FindAllText(b) == SelectSeq(b, LAMBDA el : el.tag = "text")

\* response.raise_for_status() raises for 4xx and 5xx only
RaisesForStatus(st) == 400 <= st /\ st < 600

NoBody == <<>>

Result(kind, st, b, requested) ==
    [kind |-> kind, status |-> st, body |-> b, requested |-> requested]

NoOutcome == Result("none", 0, NoBody, <<>>)

\* what one call of the undecorated base_request does with the response
BaseRequestOutcome(st, b) ==
    IF ~RaisesForStatus(st)
    THEN Result("Response", st, b, <<>>)
    ELSE IF Len(FindAllText(b)) > 0
         THEN LET error_text == FindAllText(b)[1].text
              IN  IF Contains(error_text, NoDataMarker)
                  THEN Result("NoMatchingDataError", 0, NoBody, <<>>)
                  ELSE IF Contains(error_text, LimitMarker)
                       THEN Result("PaginationError", 0, NoBody,
                                   Split(error_text)[Len(Split(error_text)) - 1])
                       ELSE Result("HTTPError", st, b, <<>>)
         ELSE Result("HTTPError", st, b, <<>>)

-----------------------------------------------------------------------------
(* The remote end: sampled responses *)

RECURSIVE Sentence(_)
Sentence(ws) ==
    IF Len(ws) <= 1 THEN ws ELSE <<ws[1], SP>> \o Sentence(SubSeq(ws, 2, Len(ws)))

El(tag, text) == [tag |-> tag, text |-> text]

TxtNoData == Sentence(<<"No", "matching", "data", "found", "for", "Data", "item">>)

TxtNoDataLower == Sentence(<<"no", "matching", "data", "found">>)

\* the message with single blanks, as the remote end words it
TxtLimitPlain ==
    Sentence(<<"The", "amount", "of", "requested", "data", "exceeds", "allowed",
               "limit", "and", "requested", "450", "documents">>)

\* the same message with the run of blanks the literal of base_request has
TxtLimitLiteral ==
    <<"The", SP>> \o LimitMarker \o
    <<SP, "and", SP, "requested", SP, "450", SP, "documents">>

TxtOther == Sentence(<<"Authentication", "failed">>)

BodyOk == <<El("TimeSeries", <<"data">>)>>

BodyNoData == <<El("code", <<"999">>), El("text", TxtNoData)>>

BodyNoDataLower == <<El("text", TxtNoDataLower)>>

BodyNoDataSecond == <<El("text", TxtOther), El("text", TxtNoData)>>

BodyNoDataUntagged == <<El("Reason", TxtNoData)>>

BodyLimitPlain == <<El("code", <<"999">>), El("text", TxtLimitPlain)>>

BodyLimitLiteral == <<El("text", TxtLimitLiteral)>>

BodyOther == <<El("text", TxtOther)>>

Bodies ==
    {NoBody, BodyOk, BodyNoData, BodyNoDataLower, BodyNoDataSecond, BodyNoDataUntagged,
     BodyLimitPlain, BodyLimitLiteral, BodyOther}

Statuses == {200, 204, 304, 400, 401, 404, 429, 500, 503}

\* the remote end of "mixed" stops failing after this many connection errors
MaxTransient == 2

\* "limit" and "mixed": a range longer than this is answered with the
\* pagination message
LimitDays == 180

LimitTicks == LimitDays * TicksPerDay

Answer(st, b) == [status |-> st, body |-> b]

\* except (requests.ConnectionError, gaierror)
TransientErrors == {"ConnectionError", "gaierror"}

\* raised by session.get and not caught by retry_wrapper
OtherTransportErrors == {"ReadTimeout"}

\* the responses the remote end may give to a request for [s, e]
ServerAnswers(srv, s, e) ==
    CASE srv = "any" -> { Answer(st, b) : st \in Statuses, b \in Bodies }
      [] srv = "always" -> { Answer(400, BodyLimitLiteral) }
      [] srv = "limit" ->
            IF e - s > LimitTicks THEN { Answer(400, BodyLimitLiteral) }
            ELSE { Answer(200, BodyOk) }
      [] srv = "mixed" ->
            IF e - s > LimitTicks THEN { Answer(400, BodyLimitLiteral) }
            ELSE { Answer(200, BodyOk), Answer(400, BodyNoData), Answer(503, BodyOther) }

\* the exceptions session.get may raise
ServerRaises(srv) ==
    CASE srv = "any" -> TransientErrors \cup OtherTransportErrors
      [] srv = "mixed" -> {"ConnectionError", "ReadTimeout"}
      [] OTHER -> {}

-----------------------------------------------------------------------------
(* misc.py: retry, around entsoerawclient.py: base_request *)

Ev(kind, s, e, d) == [ev |-> kind, start |-> s, end |-> e, delay |-> d]

GetEv == Ev("get", DatetimeToStr(tz, reqStart), DatetimeToStr(tz, reqEnd), 0)

SleepEv == Ev("sleep", <<>>, <<>>, retry_delay)

\* the params built by the raw query method
BusinessParams == [documentType |-> <<"A77">>, biddingZone_domain |-> <<"10YBE----------2">>]

\* params.update(base_params)
UpdatedParams(p) ==
    LET base_params == [securityToken |-> <<"api_key">>,
                        periodStart |-> DatetimeToStr(tz, reqStart),
                        periodEnd |-> DatetimeToStr(tz, reqEnd)]
    IN  [k \in DOMAIN p \cup DOMAIN base_params |->
            IF k \in DOMAIN base_params THEN base_params[k] ELSE p[k]]

\* one iteration more than retry_count
LoopOneMore(n) == n <= retry_count

\* for _ in range(self.retry_count): is there another iteration after n?
LoopContinues(n) == n < retry_count

\* the sleep left out
NeverSleeps(n) == FALSE

\* after a caught error: sleep(self.retry_delay), continue
SleepsAfterFailure(n) == TRUE

\* what is remembered of a call of the query method: its frames, its requests
\* and sleeps, and how it ended
RunRecord(k, l, r, p) == [kept |-> k, log |-> l, raised |-> r, pc |-> p]

NoRun == RunRecord(<<>>, <<>>, "None", "none")

IdleClient ==
    /\ tz = "UTC"
    /\ retry_count = 1
    /\ retry_delay = 0
    /\ server = "any"

IdleChunk ==
    /\ gran = "YEAR"
    /\ pag = FALSE
    /\ start = 0
    /\ end = 0
    /\ blocks = <<>>

IdleQuery ==
    /\ bi = 0
    /\ todo = <<>>
    /\ kept = <<>>
    /\ raised = "None"
    /\ run = 1
    /\ prev = NoRun
    /\ callAt = <<>>

IdleRequest ==
    /\ reqStart = 0
    /\ reqEnd = 0
    /\ params = BusinessParams
    /\ attempts = 0
    /\ sleeps = 0
    /\ failures = 0
    /\ error = "None"
    /\ status = 0
    /\ body = NoBody
    /\ outcome = NoOutcome
    /\ thrown = <<>>
    /\ log = <<>>

\* the remote end of "mixed" fails at most MaxTransient times in a query
TransientBudgetLeft ==
    server = "mixed" => Cardinality({ i \in 1..Len(log) : log[i].ev = "sleep" }) < MaxTransient

\* the loop counter taken over from the call before
IterationCarried(n) == n

\* the loop counter starting at the failures of the call before
FailuresCarried(n) == failures

\* for _ in range(self.retry_count): every call of retry_wrapper counts from 0
FirstIteration(n) == 0

\* except Exception
CatchesEverything(kind) == kind # "Response"

\* except (requests.ConnectionError, gaierror) as e
Catches(kind) == kind \in TransientErrors

\* the except branch: error = e, sleep(self.retry_delay), continue; after the
\* last iteration the for-else raises error
Caught(x) ==
    /\ error' = x
    /\ failures' = failures + 1
    /\ IF LoopContinues(attempts + 1)
       THEN pc' = "attempt" /\ outcome' = NoOutcome
       ELSE pc' = "returned" /\ outcome' = Result(error', 0, NoBody, <<>>)
    /\ IF SleepsAfterFailure(attempts + 1)
       THEN sleeps' = sleeps + 1 /\ log' = log \o <<GetEv, SleepEv>>
       ELSE sleeps' = sleeps /\ log' = Append(log, GetEv)

\* what leaves base_request and is not caught leaves retry_wrapper as it is
NotCaught(o) ==
    /\ pc' = "returned"
    /\ outcome' = o
    /\ log' = Append(log, GetEv)
    /\ UNCHANGED <<sleeps, failures, error>>

\* retry_wrapper is entered: error = None, and the loop is set up; with no
\* iteration at all the for-else raises error, which is None: a TypeError
CallBaseRequest ==
    /\ pc = "call"
    /\ attempts' = FirstIteration(attempts)
    /\ sleeps' = 0
    /\ failures' = 0
    /\ error' = "None"
    /\ status' = 0
    /\ body' = NoBody
    /\ thrown' = <<>>
    /\ IF LoopContinues(attempts')
       THEN pc' = "attempt" /\ outcome' = NoOutcome
       ELSE pc' = "returned" /\ outcome' = Result("TypeError", 0, NoBody, <<>>)
    /\ callAt' = Append(callAt, Len(log))
    /\ UNCHANGED <<reqStart, reqEnd, params, log>>
    /\ UNCHANGED <<chunkVars, clientVars, queryVars, run, prev>>

\* one iteration: session.get raises a connection error, which is caught;
\* the wrapper sleeps, and raises the error when that was the last iteration
AttemptTransient ==
    /\ pc = "attempt"
    /\ TransientBudgetLeft
    /\ \E x \in ServerRaises(server) :
        /\ Catches(x)
        /\ Caught(x)
        /\ thrown' = Append(thrown, x)
    /\ params' = UpdatedParams(params)
    /\ attempts' = attempts + 1
    /\ UNCHANGED <<reqStart, reqEnd, status, body>>
    /\ UNCHANGED <<chunkVars, clientVars, queryVars, runVars>>

\* one iteration: session.get raises something retry_wrapper does not catch
AttemptRaises ==
    /\ pc = "attempt"
    /\ \E x \in ServerRaises(server) :
        /\ ~Catches(x)
        /\ NotCaught(Result(x, 0, NoBody, <<>>))
        /\ thrown' = Append(thrown, x)
    /\ params' = UpdatedParams(params)
    /\ attempts' = attempts + 1
    /\ UNCHANGED <<reqStart, reqEnd, status, body>>
    /\ UNCHANGED <<chunkVars, clientVars, queryVars, runVars>>

\* one iteration: session.get returns a response; base_request returns it or
\* raises what it classifies it as, and retry_wrapper passes on what its
\* except clause does not name
AttemptResponse ==
    /\ pc = "attempt"
    /\ \E r \in ServerAnswers(server, reqStart, reqEnd) :
        /\ status' = r.status
        /\ body' = r.body
        /\ LET o == BaseRequestOutcome(r.status, r.body)
           IN  IF Catches(o.kind) THEN Caught(o.kind) ELSE NotCaught(o)
    /\ params' = UpdatedParams(params)
    /\ attempts' = attempts + 1
    /\ UNCHANGED <<reqStart, reqEnd, thrown>>
    /\ UNCHANGED <<chunkVars, clientVars, queryVars, runVars>>

\* __init__ keeps whatever retry_count it is given; only a missing api_key
\* is refused
ConstructorAccepts(rc) == TRUE

\* bounds of the sampled client configurations
MaxRetry == 3

RetryDelays == {0, 5}

Zones == {"naive", "UTC", "CET"}

\* 1 January 2020 06:30 and the last half second of the first hour of 2021,
\* as the clock of the client's zone shows them
RequestStarts == {Instant(2020, 0, T0630), Instant(2021, 0, TicksPerHour - 1)}

InitRequest ==
    /\ IdleChunk
    /\ tz \in Zones
    /\ retry_count \in { rc \in 0..MaxRetry : ConstructorAccepts(rc) }
    /\ retry_delay \in RetryDelays
    /\ server = "any"
    /\ reqStart \in RequestStarts
    /\ reqEnd = Instant(2021, 152, 0)
    /\ params = BusinessParams
    /\ attempts = 0
    /\ sleeps = 0
    /\ failures = 0
    /\ error = "None"
    /\ status = 0
    /\ body = NoBody
    /\ outcome = NoOutcome
    /\ thrown = <<>>
    /\ log = <<>>
    /\ IdleQuery
    /\ pc = "call"

NextRequest == CallBaseRequest \/ AttemptTransient \/ AttemptRaises \/ AttemptResponse

SpecRequest == InitRequest /\ [][NextRequest]_vars

-----------------------------------------------------------------------------
(* misc.py: paginated, year_limited, day_limited around a query method *)

\* depth of nested pagination_wrapper calls at which Python gives up with a
\* RecursionError; deeper than any bisection that still shortens a range
RecursionLimit == 32

Frame(s, e, depth, side) == [start |-> s, end |-> e, depth |-> depth, side |-> side]

Root(block) == Frame(block[1], block[2], 1, "root")

\* the division by two left out
PivotNotHalved(s, e) == s + (e - s)

\* pivot = start + (end - start) / 2
Pivot(s, e) == s + (e - s) \div 2

\* the right half fetched before the left one
HalvesRightFirst(top) ==
    LET pivot == Pivot(top.start, top.end)
    IN  <<Frame(pivot, top.end, top.depth + 1, "R"),
          Frame(top.start, pivot, top.depth + 1, "L")>>

\* df1 = pagination_wrapper(start=start, end=pivot), then
\* df2 = pagination_wrapper(start=pivot, end=end)
Halves(top) ==
    LET pivot == Pivot(top.start, top.end)
    IN  <<Frame(top.start, pivot, top.depth + 1, "L"),
          Frame(pivot, top.end, top.depth + 1, "R")>>

\* except Exception in pagination_wrapper
CatchesAnyError(kind) == pag /\ kind # "Response"

\* except PaginationError: only a method decorated @paginated catches it
CatchesPagination(kind) == pag /\ kind = "PaginationError"

\* func(*args, start=..., end=..., **kwargs): the raw query method builds its
\* params and calls base_request
Enter(stack) ==
    /\ todo' = stack
    /\ reqStart' = stack[1].start
    /\ reqEnd' = stack[1].end
    /\ params' = BusinessParams
    /\ pc' = "call"

\* year_wrapper / day_wrapper: the blocks are computed and the first one is
\* fetched; pd.concat of no frame at all raises ValueError
QueryWrapper ==
    /\ pc = "query"
    /\ LET bs == Blocks(gran, start, end)
       IN  /\ blocks' = bs
           /\ IF Len(bs) = 0
              THEN /\ pc' = "failed"
                   /\ raised' = "ValueError"
                   /\ UNCHANGED <<bi, todo, reqStart, reqEnd, params>>
              ELSE /\ bi' = 1
                   /\ Enter(<<Root(bs[1])>>)
                   /\ UNCHANGED raised
    /\ UNCHANGED <<gran, pag, start, end, kept>>
    /\ UNCHANGED <<attempts, sleeps, failures, error, status, body, outcome, thrown, log>>
    /\ UNCHANGED <<clientVars, runVars>>

\* the request returned a response: its frame is kept, and the next pending
\* half, the next block or the final pd.concat follows
ReturnFrame ==
    /\ pc = "returned"
    /\ outcome.kind = "Response"
    /\ kept' = Append(kept, <<reqStart, reqEnd>>)
    /\ IF Len(todo) > 1
       THEN Enter(Tail(todo)) /\ UNCHANGED bi
       ELSE IF bi < Len(blocks)
            THEN Enter(<<Root(blocks[bi + 1])>>) /\ bi' = bi + 1
            ELSE /\ pc' = "done"
                 /\ todo' = <<>>
                 /\ UNCHANGED <<bi, reqStart, reqEnd, params>>
    /\ UNCHANGED raised
    /\ UNCHANGED <<attempts, sleeps, failures, error, status, body, outcome, thrown, log>>
    /\ UNCHANGED <<chunkVars, clientVars, runVars>>

\* pagination_wrapper caught PaginationError: the two halves replace the call,
\* the left one first
Bisect ==
    /\ pc = "returned"
    /\ CatchesPagination(outcome.kind)
    /\ todo[1].depth < RecursionLimit
    /\ Enter(Halves(todo[1]) \o Tail(todo))
    /\ UNCHANGED <<bi, kept, raised>>
    /\ UNCHANGED <<attempts, sleeps, failures, error, status, body, outcome, thrown, log>>
    /\ UNCHANGED <<chunkVars, clientVars, runVars>>

\* the nesting of pagination_wrapper calls exceeds what the interpreter allows
RecursionOverflow ==
    /\ pc = "returned"
    /\ CatchesPagination(outcome.kind)
    /\ todo[1].depth >= RecursionLimit
    /\ pc' = "failed"
    /\ raised' = "RecursionError"
    /\ UNCHANGED <<bi, todo, kept>>
    /\ UNCHANGED reqVars
    /\ UNCHANGED <<chunkVars, clientVars, runVars>>

\* any other exception leaves pagination_wrapper and year_wrapper uncaught
Propagate ==
    /\ pc = "returned"
    /\ outcome.kind # "Response"
    /\ ~CatchesPagination(outcome.kind)
    /\ pc' = "failed"
    /\ raised' = outcome.kind
    /\ UNCHANGED <<bi, todo, kept>>
    /\ UNCHANGED reqVars
    /\ UNCHANGED <<chunkVars, clientVars, runVars>>

-----------------------------------------------------------------------------
(* Sampled inputs *)

SampleTods == {0, T0630, T0630 + 1}

SampleDays == {0, Feb29, 152}

YearInstants ==
    { Instant(y, md, tod) :
        y \in { yy \in BaseYear..(BaseYear + MaxYearSpan) : TRUE },
        md \in SampleDays, tod \in SampleTods } \
    { Instant(y, Feb29, tod) :
        y \in { yy \in BaseYear..(BaseYear + MaxYearSpan) : ~IsLeap(yy) },
        tod \in SampleTods }

DayBase == Instant(2020, 58, 0)

DayInstants == { DayBase + d * TicksPerDay + tod : d \in 0..MaxDaySpan, tod \in SampleTods }

-----------------------------------------------------------------------------
(* The chunkers applied to sampled ranges *)

InitChunk ==
    /\ gran \in {"YEAR", "DAY"}
    /\ pag = FALSE
    /\ start \in (IF gran = "YEAR" THEN YearInstants ELSE DayInstants)
    /\ end \in (IF gran = "YEAR" THEN YearInstants ELSE DayInstants)
    /\ blocks = <<>>
    /\ pc = "input"
    /\ IdleClient
    /\ IdleRequest
    /\ IdleQuery

ChunkRange ==
    /\ pc = "input"
    /\ blocks' = Blocks(gran, start, end)
    /\ pc' = "chunked"
    /\ UNCHANGED <<gran, pag, start, end>>
    /\ UNCHANGED <<clientVars, reqVars, queryVars, runVars>>

NextChunk == ChunkRange

SpecChunk == InitChunk /\ [][NextChunk]_vars

-----------------------------------------------------------------------------
(* A whole query of the pandas client *)

\* (granularity, paginated): query_unavailability_of_generation_units,
\* query_load and the other year-limited methods, query_units
QueryMethods == {<<"YEAR", TRUE>>, <<"YEAR", FALSE>>, <<"DAY", FALSE>>}

FourHundredDays == 400 * TicksPerDay

QueryYearInstants ==
    {Instant(2020, 0, 0), Instant(2020, Feb29, T0630),
     Instant(2020, 0, 0) + FourHundredDays, Instant(2022, 152, 0)}

QueryDayInstants == {DayBase, DayBase + T0630, DayBase + 2 * TicksPerDay}

Init ==
    /\ \E m \in QueryMethods : gran = m[1] /\ pag = m[2]
    /\ start \in (IF gran = "YEAR" THEN QueryYearInstants ELSE QueryDayInstants)
    /\ end \in (IF gran = "YEAR" THEN QueryYearInstants ELSE QueryDayInstants)
    /\ blocks = <<>>
    /\ tz = "UTC"
    /\ retry_count \in { rc \in 0..MaxRetry : ConstructorAccepts(rc) }
    /\ retry_delay = 0
    /\ server \in {"limit", "always", "mixed"}
    /\ IdleRequest
    /\ IdleQuery
    /\ pc = "query"

Next ==
    \/ QueryWrapper
    \/ CallBaseRequest
    \/ AttemptTransient
    \/ AttemptRaises
    \/ AttemptResponse
    \/ ReturnFrame
    \/ Bisect
    \/ RecursionOverflow
    \/ Propagate

Spec == Init /\ [][Next]_vars

\* the remote ends whose answer depends on the requested range only
DeterministicServers == {"limit", "always"}

\* the call is over, and the same method is called again on the same client
\* with the same arguments: the wrappers start from their arguments again,
\* and what base_request and retry_wrapper left behind is theirs to set up
Rerun ==
    /\ pc \in {"done", "failed"}
    /\ run = 1
    /\ server \in DeterministicServers
    /\ prev' = RunRecord(kept, log, raised, pc)
    /\ run' = 2
    /\ pc' = "query"
    /\ blocks' = <<>>
    /\ bi' = 0
    /\ todo' = <<>>
    /\ kept' = <<>>
    /\ raised' = "None"
    /\ log' = <<>>
    /\ callAt' = <<>>
    /\ UNCHANGED <<gran, pag, start, end>>
    /\ UNCHANGED <<reqStart, reqEnd, params, attempts, sleeps, failures, error, status, body,
                   outcome, thrown>>
    /\ UNCHANGED clientVars

NextTwice == Next \/ Rerun

SpecTwice == Init /\ [][NextTwice]_vars

-----------------------------------------------------------------------------
(* Chunking properties *)

Chunked == pc = "chunked"

Contiguous(bs) == \A i \in 1..(Len(bs) - 1) : bs[i][2] = bs[i + 1][1]

Increasing(bs) == \A i \in 1..Len(bs) : bs[i][1] < bs[i][2]

\* the same month, day and time one year later (1 March after a 29 February)
YearAfter(t) ==
    LET y == YearOf(t) + 1
        md == MonthDay(t)
    IN  Instant(y, IF md = Feb29 /\ ~IsLeap(y) THEN Feb29 + 1 ELSE md, TimeOfDay(t))

IsYearStart(t) == MonthDay(t) = 0 /\ TimeOfDay(t) = 0

IsDayStart(t) == TimeOfDay(t) = 0

\* chunk ends other than the range end, chunk starts other than the range start
InteriorBoundaries ==
    { blocks[i][2] : i \in { j \in 1..Len(blocks) : blocks[j][2] # end } } \cup
    { blocks[i][1] : i \in { j \in 1..Len(blocks) : blocks[j][1] # start } }

\* C1: for start < end the chunks are contiguous and non-overlapping, the first
\* starts at start, the last ends at end (the final partial chunk is there), so
\* their union is exactly [start, end].
C1_Coverage ==
    (Chunked /\ start < end) =>
        /\ Len(blocks) >= 1
        /\ Contiguous(blocks)
        /\ Increasing(blocks)
        /\ blocks[1][1] = start
        /\ blocks[Len(blocks)][2] = end

\* C2: for start = end the chunker returns exactly one chunk, [start, start].
C2_DegenerateOneChunk ==
    (Chunked /\ start = end) => blocks = << <<start, start>> >>

\* C3: every chunk of year_blocks spans at most one year and every chunk of
\* day_blocks at most one day, for every start <= end.
C3_SpanAtMostUnit ==
    (Chunked /\ start <= end) =>
        \A i \in 1..Len(blocks) :
            IF gran = "YEAR"
            THEN blocks[i][2] <= YearAfter(blocks[i][1])
            ELSE blocks[i][2] - blocks[i][1] <= TicksPerDay

\* C4 as stated: every interior chunk boundary is the start of a calendar year
\* (YEAR) or of a calendar day (DAY) within [start, end], for every start.
C4_CalendarBoundaries ==
    (Chunked /\ start <= end) =>
        \A b \in InteriorBoundaries :
            /\ start <= b /\ b <= end
            /\ IF gran = "YEAR" THEN IsYearStart(b) ELSE IsDayStart(b)

\* C4 amended: every interior chunk boundary is start, without its sub-second
\* part, moved forward by whole years (YEAR: the same month, day and time of
\* day in a later or the same year) or by whole days (DAY: the same time of
\* day), and lies between that whole second of start and end.
C4_AnniversaryBoundaries ==
    (Chunked /\ start <= end) =>
        \A b \in InteriorBoundaries :
            /\ TruncSecond(start) <= b /\ b <= end
            /\ TimeOfDay(b) = TimeOfDay(TruncSecond(start))
            /\ gran = "YEAR" => MonthDay(b) = MonthDay(start)

\* a multi-year range from a start that is on no calendar boundary, chunked
\* into at least three chunks
C4_Witness ==
    /\ Chunked /\ gran = "YEAR" /\ start < end
    /\ ~IsYearStart(start) /\ TimeOfDay(start) # 0
    /\ Len(blocks) >= 3
    /\ Cardinality(InteriorBoundaries) >= 2

-----------------------------------------------------------------------------
(* Classification properties (one decorated base_request call) *)

\* the markers as the interface names them
ClaimNoDataText == Sentence(<<"No", "matching", "data", "found">>)

ClaimLimitText ==
    Sentence(<<"amount", "of", "requested", "data", "exceeds", "allowed", "limit">>)

\* the last response was an HTTP error whose first <text> element holds needle
ErrorResponseWith(needle) ==
    /\ pc = "returned"
    /\ status >= 400
    /\ \E i \in 1..Len(body) :
        /\ body[i].tag = "text"
        /\ \A j \in 1..(i - 1) : body[j].tag # "text"
        /\ Contains(body[i].text, needle)

FirstText(b) == b[CHOOSE i \in 1..Len(b) : b[i].tag = "text" /\ \A j \in 1..(i - 1) : b[j].tag # "text"].text

Gets == { i \in 1..Len(log) : log[i].ev = "get" }

\* C5: an error response whose message holds "amount of requested data exceeds
\* allowed limit" is classified PaginationError with the second-to-last token
\* of the message as the requested count (here for the HTTP error statuses).
C5_LimitClassified ==
    (ErrorResponseWith(ClaimLimitText) /\ ~ErrorResponseWith(ClaimNoDataText)) =>
        /\ outcome.kind = "PaginationError"
        /\ outcome.requested = Split(FirstText(body))[Len(Split(FirstText(body))) - 1]

-----------------------------------------------------------------------------
(* Retry properties (one decorated base_request call) *)

\* C10: when the operation fails with a connection error k < retry_count times
\* and then answers with success, the wrapper returns that response after
\* exactly k + 1 calls and k sleeps of retry_delay, each sleep right after a
\* failed call and before the next one, and the successful call is the last.
C10_RetryThenSuccess ==
    (pc = "returned" /\ status # 0 /\ ~RaisesForStatus(status) /\ failures < retry_count) =>
        /\ outcome = Result("Response", status, body, <<>>)
        /\ attempts = failures + 1
        /\ sleeps = failures
        /\ Len(log) = 2 * failures + 1
        /\ \A i \in 1..Len(log) :
              IF i % 2 = 1
              THEN log[i].ev = "get"
              ELSE log[i].ev = "sleep" /\ log[i].delay = retry_delay

\* two failures, then success, with retry_count = 3
C10_Witness ==
    /\ pc = "returned"
    /\ retry_count = 3
    /\ failures = 2
    /\ status = 200
    /\ outcome.kind = "Response"
    /\ attempts = 3
    /\ sleeps = 2

-----------------------------------------------------------------------------
(* Pagination properties (a whole query) *)

WireOf(i) == <<log[i].start, log[i].end>>

\* C7: a sub-range answered with no-data does not end the query while chunks
\* or halves remain to be fetched.
C7_NoDataContinues ==
    ~(/\ pc = "failed"
      /\ raised = "NoMatchingDataError"
      /\ (bi < Len(blocks) \/ Len(todo) > 1))

\* the query has returned its result or one of the actions can be taken
Progressing ==
    /\ pc \in {"query", "call", "attempt", "returned", "done"}
    /\ pc = "attempt" => LoopContinues(attempts) /\ ServerAnswers(server, reqStart, reqEnd) # {}
    /\ pc = "returned" =>
          \/ outcome.kind = "Response"
          \/ CatchesPagination(outcome.kind) /\ todo[1].depth < RecursionLimit

LimitedFetch == pag /\ server = "limit" /\ retry_count >= 1 /\ start < end

\* C8: with an operation that reports the pagination limit for every sub-range
\* longer than LimitTicks and success otherwise, the fetch ends (no error, a
\* step is always possible until the result is returned, and every half
\* requested is at least half the limit long, so finitely many are), every
\* bisection is at the midpoint with the left half fetched first, every kept
\* sub-range is no longer than the limit, and the kept sub-ranges are
\* contiguous and cover the range from start to end exactly once.
C8_LimitedFetch ==
    LimitedFetch =>
        /\ raised = "None"
        /\ Progressing
        /\ \A i \in 1..Len(todo) :
              todo[i].side # "root" => 2 * (todo[i].end - todo[i].start) + 1 >= LimitTicks
        \* each bisection: mid = start + (end - start) / 2, left half first
        /\ (Len(todo) >= 1 /\ todo[1].side = "L") =>
              /\ Len(todo) >= 2
              /\ todo[2].side = "R"
              /\ todo[1].end = todo[2].start
              /\ 2 * (todo[1].end - todo[1].start) <= todo[2].end - todo[1].start
              /\ todo[2].end - todo[1].start <= 2 * (todo[1].end - todo[1].start) + 1
        \* kept sub-ranges: no longer than the limit, in order, no gap, no overlap
        /\ \A i \in 1..Len(kept) :
              /\ kept[i][2] - kept[i][1] <= LimitTicks
              /\ kept[i][1] < kept[i][2]
        /\ Contiguous(kept)
        /\ (Len(kept) >= 1 /\ Len(todo) >= 1) => kept[Len(kept)][2] = todo[1].start
        /\ pc = "done" =>
              /\ Len(kept) >= 1
              /\ kept[1][1] = start
              /\ kept[Len(kept)][2] = end

\* the 400-day range was fetched in pieces after bisections
C8_Witness ==
    /\ LimitedFetch
    /\ pc = "done"
    /\ end - start = FourHundredDays
    /\ Len(kept) > Len(blocks)
    /\ \E i \in 1..Len(kept) : kept[i][2] - kept[i][1] < LimitTicks

\* C9: with an operation that always reports the pagination limit, bisection
\* stops when the wire range can shrink no further and the query fails with
\* PaginationLimitError: no wire request is issued twice and the recursion
\* never runs into the interpreter's limit.
C9_BisectionStops ==
    (pag /\ server = "always" /\ retry_count >= 1) =>
        /\ \A i, j \in Gets : i # j => WireOf(i) # WireOf(j)
        /\ raised # "RecursionError"
        /\ pc = "failed" => raised \in {"PaginationLimitError", "ValueError"}

-----------------------------------------------------------------------------
(* Claims on the retry loop *)

\* the errors the claims call transient
ClaimTransient == {"ConnectionError", "gaierror"}

\* the outcomes the claims call non-transient
ClaimNonTransient == {"NoMatchingDataError", "PaginationError", "HTTPError"}

\* every attempt of the call raised a transient error
AlwaysTransient ==
    /\ Len(thrown) = attempts
    /\ \A i \in 1..Len(thrown) : thrown[i] \in ClaimTransient

\* C11: with retry_count = 1 a call whose only attempt fails with a transient
\* error ends after exactly one attempt and without any sleep: there is no
\* sleep after the final failed attempt.
C11_NoSleepAfterLast ==
    (pc = "returned" /\ retry_count = 1 /\ AlwaysTransient) =>
        /\ attempts = 1
        /\ sleeps = 0
        /\ \A i \in 1..Len(log) : log[i].ev # "sleep"

\* C12: for every retry_count >= 1, when every attempt raises a transient
\* error the request is sent exactly retry_count times, and the call then
\* raises the error of the last attempt.
C12_ExhaustedAfterRetryCount ==
    (retry_count >= 1 /\ pc \in {"attempt", "returned"} /\ AlwaysTransient) =>
        /\ Cardinality(Gets) = attempts
        /\ attempts <= retry_count
        /\ pc = "attempt" <=> attempts < retry_count
        /\ pc = "returned" =>
              /\ attempts = retry_count
              /\ outcome.kind = thrown[Len(thrown)]
              /\ outcome.status = 0

\* three attempts, the last one failing otherwise than the ones before it
C12_Witness ==
    /\ pc = "returned"
    /\ retry_count = MaxRetry
    /\ AlwaysTransient
    /\ thrown[1] = "ConnectionError"
    /\ thrown[Len(thrown)] = "gaierror"
    /\ outcome.kind = "gaierror"

\* C13: a client with retry_count = 0 is refused when it is constructed: no
\* call of such a client ever ends in the TypeError of raising None.
C13_ZeroRejected ==
    pc = "returned" => (retry_count >= 1 /\ outcome.kind # "TypeError")

\* C14: NoMatchingDataError, PaginationError and any other HTTPError are never
\* retried, whatever retry_count is: the attempt that gave one is the last of
\* the call (the only one unless transient errors came before it), no sleep
\* follows it, and the caller gets it as base_request raised it.
C14_NonTransientNotRetried ==
    /\ pc = "attempt" => status = 0
    /\ (pc = "returned" /\ outcome.kind \in ClaimNonTransient) =>
          /\ attempts = failures + 1
          /\ sleeps = failures
          /\ Len(thrown) = failures
          /\ log[Len(log)].ev = "get"
          /\ failures = 0 => (attempts = 1 /\ sleeps = 0 /\ Len(log) = 1)
          /\ outcome = BaseRequestOutcome(status, body)
          /\ outcome.kind = "HTTPError" => (outcome.status = status /\ outcome.body = body)
          /\ status # 0

\* an HTTP error at the first attempt of a client that has three
C14_Witness ==
    /\ pc = "returned"
    /\ retry_count = MaxRetry
    /\ outcome.kind = "HTTPError"
    /\ attempts = 1
    /\ sleeps = 0

-----------------------------------------------------------------------------
(* Claims on the classification by status *)

\* the success range of HTTP statuses
ClaimSuccessStatus(st) == 200 <= st /\ st < 300

Words(text) == SelectSeq(text, LAMBDA w : w # SP)

\* some element of the body holds the words of one of the two markers,
\* however many blanks separate them
CarriesMarker(b) ==
    \E i \in 1..Len(b) :
        \/ Contains(Words(b[i].text), Words(ClaimNoDataText))
        \/ Contains(Words(b[i].text), Words(ClaimLimitText))

\* C15: the status decides: a response with a status of the success range is
\* returned as it is whatever its body says, and a response with any other
\* status whose body carries neither marker raises the HTTP error with that
\* status and body, and is never returned as a successful response.
C15_StatusDecides ==
    (pc = "returned" /\ status # 0) =>
        /\ ClaimSuccessStatus(status) => outcome = Result("Response", status, body, <<>>)
        /\ (~ClaimSuccessStatus(status) /\ ~CarriesMarker(body)) =>
              outcome = Result("HTTPError", status, body, <<>>)

-----------------------------------------------------------------------------
(* Claims on the whole query *)

\* the query is over and no request of it ended otherwise than in a
\* response, in no-data, in a bisected pagination error or in a retried
\* transient error
OnlySuccessOrNoData ==
    /\ start < end
    /\ retry_count >= 1
    /\ pc \in {"done", "failed"}
    /\ raised \in {"None", "NoMatchingDataError"}

\* the frames are those of consecutive sub-ranges from start to end
CoversInOrder ==
    /\ Len(kept) >= Len(blocks)
    /\ Len(kept) >= 1
    /\ kept[1][1] = start
    /\ kept[Len(kept)][2] = end
    /\ Contiguous(kept)
    /\ Increasing(kept)

\* C16: when every sub-range request ends in a response or in no-data, the
\* query returns the concatenation of the per-chunk results in ascending
\* chunk order, left halves before right halves, and the requested sub-ranges
\* cover the range from start to end with none skipped and none kept twice.
C16_OrderedConcatenation ==
    OnlySuccessOrNoData => (pc = "done" /\ CoversInOrder)

-----------------------------------------------------------------------------
(* Claims on the request parameters and the wire format *)

\* params holds the keys and values the caller built
SameParams(p, q) ==
    /\ DOMAIN p = DOMAIN q
    /\ \A k \in DOMAIN p : p[k] = q[k]

\* C17: base_request never changes the params it is given: after every
\* attempt, whether it returns or raises, params holds exactly the keys and
\* values the caller put into it.
C17_ParamsNotMutated ==
    pc \in {"attempt", "returned"} => SameParams(params, BusinessParams)

\* the instant t of the zone's clock, on the UTC clock; naive is taken as UTC
ClaimUtc(zone, t) == IF zone = "CET" THEN t - TicksPerHour ELSE t

HourFloor(t) == t - (t % TicksPerHour)

\* year, month-and-day and hour of the UTC hour the instant lies in
ClaimWire(zone, t) ==
    LET h == HourFloor(ClaimUtc(zone, t))
    IN  <<YearOf(h), MonthDay(h), (h % TicksPerDay) \div TicksPerHour>>

\* offsets into an hour: its start, half a second, half an hour, its last tick
HourOffsets == {0, 1, TicksPerHour \div 2, TicksPerHour - 1}

\* C18: start and end of every request go out as YYYYMMDDHH00 in UTC: an
\* instant of another zone is converted to UTC first, a naive one is taken as
\* UTC, and the minutes are cut off, not rounded, so that all instants of one
\* UTC hour give the same string and those of the next hour another one.
C18_WireFormat ==
    \A i \in Gets :
        /\ log[i].start = ClaimWire(tz, reqStart)
        /\ log[i].end = ClaimWire(tz, reqEnd)
        /\ params.periodStart = log[i].start
        /\ params.periodEnd = log[i].end
        /\ \A d \in HourOffsets :
              /\ DatetimeToStr(tz, HourFloor(reqStart) + d) = log[i].start
              /\ DatetimeToStr(tz, HourFloor(reqStart) + TicksPerHour + d) # log[i].start

\* 00:59:59.5 on 1 January 2021 in CET went out as hour 23 of 31 December 2020
C18_Witness ==
    /\ pc = "returned"
    /\ tz = "CET"
    /\ reqStart = Instant(2021, 0, TicksPerHour - 1)
    /\ \E i \in Gets : log[i].start = <<2020, 365, 23>> /\ log[i].end = <<2021, 151, 23>>

-----------------------------------------------------------------------------
(* Claims on the order of the requests and on repeated queries *)

IsPrefix(a, b) == Len(a) <= Len(b) /\ SubSeq(b, 1, Len(a)) = a

\* C19: a query repeated on the same client against a remote end that answers
\* by the requested range alone requests the same sub-ranges in the same
\* order and ends with the same frames or the same error: nothing the first
\* call left behind shows in the second.
C19_SecondRunSame ==
    run = 2 =>
        /\ IsPrefix(log, prev.log)
        /\ IsPrefix(kept, prev.kept)
        /\ pc \in {"done", "failed"} =>
              /\ log = prev.log
              /\ kept = prev.kept
              /\ raised = prev.raised
              /\ pc = prev.pc

\* a bisected fetch of several chunks was repeated to its end
C19_Witness ==
    /\ run = 2
    /\ pc = "done"
    /\ Len(blocks) > 1
    /\ Len(kept) > Len(blocks)
    /\ Len(log) > Len(kept)
    /\ log = prev.log

\* the order of the wire strings: by year, then month and day, then hour
WireLeq(a, b) ==
    \/ a[1] < b[1]
    \/ a[1] = b[1] /\ a[2] < b[2]
    \/ a[1] = b[1] /\ a[2] = b[2] /\ a[3] <= b[3]

\* a request is being set up, sent or evaluated
InRequest == pc \in {"call", "attempt", "returned"}

\* C20: the requests go out one after the other in ascending order of time:
\* whatever was requested for a chunk, retries and halves included, is over
\* before the first request of the next chunk, and within a bisected range the
\* left half is over before the right half is requested.
C20_Sequential ==
    /\ \A i, j \in Gets : i < j => WireLeq(log[i].start, log[j].start)
    /\ \A i \in 1..(Len(kept) - 1) : kept[i][2] <= kept[i + 1][1]
    /\ InRequest =>
          /\ bi \in 1..Len(blocks)
          /\ todo[1].start = reqStart /\ todo[1].end = reqEnd
          \* what is done lies before the request in hand, what is pending after it
          /\ \A i \in 1..Len(kept) : kept[i][2] <= reqStart
          /\ \A k \in 1..(Len(todo) - 1) : todo[k].end <= todo[k + 1].start
          \* the request in hand and the pending ones belong to chunk bi, and
          \* nothing of a later chunk has been requested
          /\ \A k \in 1..Len(todo) :
                blocks[bi][1] <= todo[k].start /\ todo[k].end <= blocks[bi][2]
          /\ \A i \in Gets : WireLeq(log[i].end, DatetimeToStr(tz, blocks[bi][2]))
          \* the chunks before bi are done with
          /\ bi > 1 => (Len(kept) >= 1 /\ \E i \in 1..Len(kept) : kept[i][2] = blocks[bi - 1][2])

\* several chunks fetched with bisections and a retry
C20_Witness ==
    /\ pc = "done"
    /\ Len(blocks) > 1
    /\ Len(kept) > Len(blocks)
    /\ \E i \in 1..Len(log) : log[i].ev = "sleep"

-----------------------------------------------------------------------------
(* Claims on the retry budget and on fatal outcomes *)

\* the requests sent by the k-th call of base_request of the query
GetsOfCall(k) ==
    { i \in Gets :
        /\ callAt[k] < i
        /\ i <= (IF k < Len(callAt) THEN callAt[k + 1] ELSE Len(log)) }

LastCall == Len(callAt)

\* C21: the retry budget is per request: every call of base_request (each
\* chunk, each bisected half) counts its attempts from 0 and may make up to
\* retry_count of them, whatever transient failures earlier calls met, and
\* the query sends at most retry_count times the number of calls requests.
C21_BudgetPerRequest ==
    /\ \A k \in 1..LastCall : Cardinality(GetsOfCall(k)) <= retry_count
    /\ Cardinality(Gets) <= retry_count * LastCall
    /\ (retry_count >= 1) => \A k \in 1..(LastCall - 1) : Cardinality(GetsOfCall(k)) >= 1
    /\ (pc \in {"attempt", "returned"} /\ LastCall >= 1) =>
          /\ attempts = Cardinality(GetsOfCall(LastCall))
          /\ pc = "attempt" => attempts < retry_count
          /\ (pc = "returned" /\ outcome.kind \in ClaimTransient) =>
                Cardinality(GetsOfCall(LastCall)) = retry_count

\* the first call needed both of its two attempts, and so did a later one
C21_Witness ==
    /\ retry_count = 2
    /\ LastCall >= 2
    /\ Cardinality(GetsOfCall(1)) = 2
    /\ Cardinality(GetsOfCall(LastCall)) = 2
    /\ pc = "done"

\* the outcomes of a request that end the query: the HTTP error that is
\* neither no-data nor the pagination limit, and a transient error left after
\* the last attempt
ClaimFatal == {"HTTPError"} \cup ClaimTransient

FatalReturned == pc = "returned" /\ outcome.kind \in ClaimFatal

\* C22: a request that ends in the HTTP error or in a transient error after
\* the last attempt ends the query at once: the next step raises that error
\* to the caller, the sub-range is neither bisected nor requested again, no
\* other sub-range or chunk is requested, and once the query has failed
\* nothing follows, so that no frame is ever returned.
C22_FatalAborts ==
    [][ /\ FatalReturned =>
              /\ pc' = "failed"
              /\ raised' = outcome.kind
              /\ log' = log
              /\ callAt' = callAt
              /\ todo' = todo
              /\ kept' = kept
        /\ pc # "failed" ]_vars

\* the HTTP error came after a frame had been kept and while a half or a
\* chunk was still to be fetched
C22_Witness ==
    /\ pc = "failed"
    /\ raised = "HTTPError"
    /\ outcome.kind = "HTTPError"
    /\ Len(kept) >= 1
    /\ (bi < Len(blocks) \/ Len(todo) > 1)

=============================================================================
